---- MODULE Spec2Model ----
(***************************************************************************)
(* Stripe Terminal backend (express server): the request handlers of       *)
(* src/server.js and of the earlier revisions kept in src/unnamed, run     *)
(* against a payment ledger (Stripe PaymentIntents).                       *)
(*                                                                         *)
(* A request body is a record of its fields; a field the client left out   *)
(* (undefined) and an empty string are both held as "" (NoId for an id):   *)
(* the handlers only ever test these fields for truthiness before they use *)
(* them. A capture request may leave amount_to_capture out or send a       *)
(* number, 0 included, so its body has the field or lacks it.              *)
(***************************************************************************)
EXTENDS Integers, Sequences, FiniteSets, TLC

VARIABLES
    ledger,   \* the processor's PaymentIntents, oldest first
    supplied, \* history: per PaymentIntent, the operator name its create request carried
    req,      \* the request last handled: [op, file, body]
    calls,    \* the ledger calls that request issued: <<[op, params, ok, message, value]>>
    resp      \* the response sent for it: [status, body]

vars == <<ledger, supplied, req, calls, resp>>

(***************************************************************************)
(* Bounds and input sets                                                   *)
(***************************************************************************)
MaxRecords == 1

\* the id the ledger assigns to its n-th record
PaymentIntentId(n) == <<"pi", n>>

\* the id of a request that carries none
NoId == <<>>

Currencies == {"eur", "usd"}

\* ISO-8601 inputs of the report and what new Date(s).getTime() gives (ms)
DateStrings ==
    { "1970-01-01T00:00:01.000Z", "1970-01-01T00:00:02.999Z",
      "1970-01-01T00:00:03.500Z", "1970-01-01T00:10:00.000Z" }

getTime(s) ==
    CASE s = "1970-01-01T00:00:01.000Z" -> 1000
      [] s = "1970-01-01T00:00:02.999Z" -> 2999
      [] s = "1970-01-01T00:00:03.500Z" -> 3500
      [] s = "1970-01-01T00:10:00.000Z" -> 600000

\* Math.floor(x / 1000)
floorSeconds(ms) == ms \div 1000

(***************************************************************************)
(* JavaScript helpers                                                      *)
(***************************************************************************)
\* a || b on strings
OrElse(a, b) == IF a # "" THEN a ELSE b

\* obj.key === value, where a key the object lacks reads as undefined and
\* value is a non-empty string
FieldIs(obj, key, value) == key \in DOMAIN obj /\ obj[key] = value

\* a callback that returns pi.amount and drops the running sum
reduceRun_dropSum(arr, i, j, sum) == IF i > j THEN sum ELSE arr[j].amount

\* array.reduce((sum, pi) => sum + pi.amount, sum) over arr[i..j]: each step
\* adds before it moves on, as the callback does
RECURSIVE reduceRun(_, _, _, _)
reduceRun(arr, i, j, sum) ==
    IF i > j THEN sum
    ELSE LET next == sum + arr[i].amount
         IN  IF next \in Int THEN reduceRun(arr, i + 1, j, next) ELSE next

\* the same fold over arr[i..], a run of ReduceRun elements at a time, which
\* keeps the evaluation shallow on a full page
ReduceRun == 5 * 5

RECURSIVE reduceFrom(_, _, _)
reduceFrom(arr, i, sum) ==
    IF i > Len(arr) THEN sum
    ELSE LET j == IF i + ReduceRun - 1 < Len(arr) THEN i + ReduceRun - 1
                  ELSE Len(arr)
             next == reduceRun(arr, i, j, sum)
         IN  IF next \in Int THEN reduceFrom(arr, j + 1, next) ELSE next

\* array.reduce((sum, pi) => sum + pi.amount, 0)
reduceAmount(arr, sum) == reduceFrom(arr, 1, sum)

Reverse(s) == [i \in 1..Len(s) |-> s[Len(s) + 1 - i]]

(***************************************************************************)
(* The ledger (Stripe PaymentIntents API), as the handlers use it.         *)
(* Every call answers [ok, message, ledger, value]; a call the processor   *)
(* rejects, or that never reaches it (~up), leaves the ledger as it was.   *)
(***************************************************************************)
Failure(l, message) ==
    [ok |-> FALSE, message |-> message, ledger |-> l, value |-> <<>>]

Success(l, value) ==
    [ok |-> TRUE, message |-> "", ledger |-> l, value |-> value]

Unreachable == "An error occurred with our connection to Stripe."

\* what a new PaymentIntent holds where the create call names no value
RecordDefaults ==
    [ amount |-> 0, currency |-> "", capture_method |-> "automatic",
      description |-> "", receipt_email |-> "",
      payment_method_types |-> <<"card">>,
      metadata |-> [k \in {} |-> ""] ]

IndexOf(l, id) ==
    IF \E i \in 1..Len(l) : l[i].id = id
    THEN CHOOSE i \in 1..Len(l) : l[i].id = id
    ELSE 0

\* the record with the fields of params written over it; metadata is merged
\* key by key
Merge(rec, params) ==
    [ k \in DOMAIN rec |->
        IF k \notin DOMAIN params THEN rec[k]
        ELSE IF k = "metadata"
             THEN [ m \in DOMAIN rec[k] \cup DOMAIN params[k] |->
                      IF m \in DOMAIN params[k] THEN params[k][m] ELSE rec[k][m] ]
             ELSE params[k] ]

\* the n-th record of the ledger, as created from params: status pending,
\* stamped by the ledger's clock (one second per record)
NewRecord(n, params) ==
    Merge(RecordDefaults, params) @@
    [ id |-> PaymentIntentId(n), client_secret |-> PaymentIntentId(n) \o <<"secret">>,
      status |-> "pending", created |-> n, reader |-> "" ]

\* stripe.paymentIntents.create(params)
paymentIntents_create(l, params, up) ==
    IF ~up THEN Failure(l, Unreachable)
    ELSE IF "amount" \notin DOMAIN params \/ params.amount <= 0
    THEN Failure(l, "Invalid positive integer")
    ELSE IF "currency" \notin DOMAIN params \/ params.currency \notin Currencies
    THEN Failure(l, "Invalid currency")
    ELSE LET rec == NewRecord(Len(l) + 1, params)
         IN  Success(Append(l, rec), rec)

\* stripe.paymentIntents.capture(id, params): finalizes a pending record, for
\* the amount_to_capture when given, else for the authorized amount
paymentIntents_capture(l, id, params, up) ==
    LET i == IndexOf(l, id) IN
    IF ~up THEN Failure(l, Unreachable)
    ELSE IF i = 0 THEN Failure(l, "No such payment_intent")
    ELSE IF l[i].status # "pending"
    THEN Failure(l, "This PaymentIntent could not be captured")
    ELSE IF "amount_to_capture" \in DOMAIN params
            /\ params.amount_to_capture > l[i].amount
    THEN Failure(l, "amount_to_capture is greater than the authorized amount")
    ELSE LET amt == IF "amount_to_capture" \in DOMAIN params
                    THEN params.amount_to_capture ELSE l[i].amount
             rec == [l[i] EXCEPT !.status = "succeeded", !.amount = amt]
         IN  Success([l EXCEPT ![i] = rec], rec)

\* stripe.paymentIntents.update(id, params): writes the fields params names
paymentIntents_update(l, id, params, up) ==
    LET i == IndexOf(l, id) IN
    IF ~up THEN Failure(l, Unreachable)
    ELSE IF i = 0 THEN Failure(l, "No such payment_intent")
    ELSE LET rec == Merge(l[i], params)
         IN  Success([l EXCEPT ![i] = rec], rec)

\* stripe.paymentIntents.list(params): the records created within
\* [created.gte, created.lte], newest first, at most params.limit of them
paymentIntents_list(l, params, up) ==
    IF ~up THEN Failure(l, Unreachable)
    ELSE LET inWindow(pi) == /\ params.created.gte <= pi.created
                             /\ pi.created <= params.created.lte
             all == SelectSeq(Reverse(l), inWindow)
             n == IF Len(all) < params.limit THEN Len(all) ELSE params.limit
         IN  Success(l, [ data |-> SubSeq(all, 1, n),
                          has_more |-> Len(all) > params.limit ])

\* the entry calls keeps of one ledger call
Call(op, params, r) ==
    [op |-> op, params |-> params, ok |-> r.ok, message |-> r.message,
     value |-> r.value]

(***************************************************************************)
(* Responses                                                               *)
(***************************************************************************)
\* res.json(body)
Json(body) == [status |-> 200, body |-> body]

\* an error response that hides the message behind a fixed text
Error_generic(code, message) ==
    [status |-> code, body |-> [error |-> "Internal Server Error"]]

\* res.status(code).json({ error })
Error(code, message) == [status |-> code, body |-> [error |-> message]]

(***************************************************************************)
(* Request bodies the clients send                                         *)
(***************************************************************************)
CreateBodies ==
    { [ amount |-> 200, currency |-> "usd", description |-> "",
        receipt_email |-> "", terminal_label |-> "Register-1",
        staff_name |-> "Ann", staffName |-> "" ],
      [ amount |-> 300, currency |-> "eur", description |-> "Coffee",
        receipt_email |-> "ann@example.com", terminal_label |-> "",
        staff_name |-> "", staffName |-> "Bob" ] }

\* amount_to_capture left out, for a record and for an id the ledger lacks,
\* and amount_to_capture sent as a number below the amounts of CreateBodies
CaptureBodies ==
    [ payment_intent_id : {PaymentIntentId(1), PaymentIntentId(9)} ]
    \cup [ payment_intent_id : {PaymentIntentId(1)},
           amount_to_capture : {0, 100} ]

UpdateBodies ==
    [ payment_intent_id : {NoId, PaymentIntentId(1), PaymentIntentId(9)},
      receipt_email : {"", "bob@example.com"} ]

Report(start, end, staff_name, terminal_label, terminal_id) ==
    [ start |-> start, end |-> end, staff_name |-> staff_name,
      terminal_label |-> terminal_label, terminal_id |-> terminal_id ]

\* the reports asked between the lifecycle requests
ReportBodies ==
    { Report("1970-01-01T00:00:01.000Z", "1970-01-01T00:00:02.999Z", n, "", "") :
        n \in {"", "Ann", "Bob"} }
    \cup { Report("1970-01-01T00:00:01.000Z", "1970-01-01T00:00:02.999Z",
                  "", "Register-1", ""),
           Report("1970-01-01T00:00:01.000Z", "1970-01-01T00:00:02.999Z",
                  "", "", "tmr_1") }

(***************************************************************************)
(* POST /create_payment_intent                                             *)
(***************************************************************************)
\* a create that writes the operator under the key of the request field
createParams_otherKey(body) ==
    [ amount |-> body.amount,
      currency |-> body.currency,
      capture_method |-> "automatic",
      description |-> OrElse(body.description, "Terminal Transaction"),
      receipt_email |-> body.receipt_email,
      payment_method_types |-> <<"card_present">>,
      metadata |-> [ terminal_label |-> OrElse(body.terminal_label, ""),
                     staffName |-> OrElse(body.staff_name, "Unknown") ] ]

\* src/server.js: the params of stripe.paymentIntents.create
createParams(body) ==
    [ amount |-> body.amount,
      currency |-> body.currency,
      capture_method |-> "automatic",
      description |-> OrElse(body.description, "Terminal Transaction"),
      receipt_email |-> body.receipt_email,
      payment_method_types |-> <<"card_present">>,
      metadata |-> [ terminal_label |-> OrElse(body.terminal_label, ""),
                     staff_name |-> OrElse(body.staff_name, "Unknown") ] ]

\* the revision that reads the operator from the body's staffName
createParams_staffName(body) ==
    [ amount |-> body.amount,
      currency |-> body.currency,
      capture_method |-> "automatic",
      description |-> OrElse(body.description, "Terminal Transaction"),
      receipt_email |-> body.receipt_email,
      payment_method_types |-> <<"card_present">>,
      metadata |-> [ terminal_label |-> OrElse(body.terminal_label, ""),
                     staff_name |-> OrElse(body.staffName, "Unknown") ] ]

\* the revision before attribution: no metadata
createParams_plain(body) ==
    [ amount |-> body.amount,
      currency |-> body.currency,
      capture_method |-> "automatic",
      description |-> OrElse(body.description, "Terminal Transaction"),
      receipt_email |-> body.receipt_email,
      payment_method_types |-> <<"card_present">> ]

\* the handler, for the params its revision builds and the operator name that
\* revision read from the body
CreateHandler(file, body, params, name, up) ==
    LET r == paymentIntents_create(ledger, params, up) IN
    /\ Len(ledger) < MaxRecords
    /\ req' = [op |-> "create", file |-> file, body |-> body]
    /\ calls' = << Call("create", params, r) >>
    /\ ledger' = r.ledger
    /\ supplied' = IF r.ok THEN Append(supplied, name) ELSE supplied
    /\ resp' = IF r.ok
               THEN Json([ intent |-> r.value.id,
                           secret |-> r.value.client_secret ])
               ELSE Error(500, r.message)

create_payment_intent(body, up) ==
    CreateHandler("server.js", body, createParams(body), body.staff_name, up)

create_payment_intent_staffName(body, up) ==
    CreateHandler("part_002", body, createParams_staffName(body),
                  body.staffName, up)

create_payment_intent_plain(body, up) ==
    CreateHandler("part_000", body, createParams_plain(body), "", up)

(***************************************************************************)
(* POST /capture_payment_intent                                            *)
(***************************************************************************)
\* amount_to_capture ? { amount_to_capture } : {}
captureParams(body) ==
    IF "amount_to_capture" \in DOMAIN body /\ body.amount_to_capture # 0
    THEN [amount_to_capture |-> body.amount_to_capture]
    ELSE [k \in {} |-> 0]

capture_payment_intent(body, up) ==
    LET params == captureParams(body)
        r == paymentIntents_capture(ledger, body.payment_intent_id, params, up)
    IN
    /\ req' = [op |-> "capture", file |-> "server.js", body |-> body]
    /\ calls' = << Call("capture", params, r) >>
    /\ ledger' = r.ledger
    /\ resp' = IF r.ok
               THEN Json([ intent |-> r.value.id,
                           secret |-> r.value.client_secret ])
               ELSE Error(500, r.message)
    /\ UNCHANGED supplied

(***************************************************************************)
(* POST /update_payment_intent                                             *)
(***************************************************************************)
\* a check that forgets the receipt_email
updateInvalid_idOnly(body) == body.payment_intent_id = NoId

\* !payment_intent_id || !receipt_email
updateInvalid(body) ==
    body.payment_intent_id = NoId \/ body.receipt_email = ""

\* an update that sends the attribution defaults of create along
updateParams_withMetadata(body) ==
    [ receipt_email |-> body.receipt_email,
      metadata |-> [terminal_label |-> "", staff_name |-> "Unknown"] ]

\* { receipt_email }
updateParams(body) == [receipt_email |-> body.receipt_email]

update_payment_intent(body, up) ==
    LET params == updateParams(body)
        r == paymentIntents_update(ledger, body.payment_intent_id, params, up)
    IN
    /\ req' = [op |-> "update", file |-> "server.js", body |-> body]
    /\ IF updateInvalid(body)
       THEN /\ calls' = <<>>
            /\ ledger' = ledger
            /\ resp' = Error(400, "Missing payment_intent_id or receipt_email")
       ELSE /\ calls' = << Call("update", params, r) >>
            /\ ledger' = r.ledger
            /\ resp' = IF r.ok
                       THEN Json([success |-> TRUE, paymentIntent |-> r.value])
                       ELSE Error(500, r.message)
    /\ UNCHANGED supplied

(***************************************************************************)
(* POST /transactions_for_terminal                                         *)
(***************************************************************************)
\* the page size asked of stripe.paymentIntents.list
limit == 500

\* { gte: Math.floor(new Date(start).getTime() / 1000), lte: ... }
created(body) ==
    [ gte |-> floorSeconds(getTime(body.start)),
      lte |-> floorSeconds(getTime(body.end)) ]

listParams(body) == [created |-> created(body), limit |-> limit]

\* src/server.js: !start || !end || !staff_name
reportInvalid(body) ==
    body.start = "" \/ body.end = "" \/ body.staff_name = ""

\* the terminal_label revision: !start || !end || (!terminal_id && !terminal_label)
reportInvalid_label(body) ==
    body.start = "" \/ body.end = ""
        \/ (body.terminal_id = "" /\ body.terminal_label = "")

\* the reader revision: !start || !end || !terminal_id
reportInvalid_reader(body) ==
    body.start = "" \/ body.end = "" \/ body.terminal_id = ""

\* a filter that forgets the status
matches_anyStatus(pi, body) ==
    FieldIs(pi.metadata, "staff_name", body.staff_name)

\* src/server.js: succeeded and metadata.staff_name === staff_name
matches(pi, body) ==
    pi.status = "succeeded" /\ FieldIs(pi.metadata, "staff_name", body.staff_name)

\* the terminal_label revision: by terminal_label when the request has one,
\* else every succeeded record
matches_label(pi, body) ==
    IF body.terminal_label # ""
    THEN pi.status = "succeeded"
         /\ FieldIs(pi.metadata, "terminal_label", body.terminal_label)
    ELSE pi.status = "succeeded"

\* the reader revision: succeeded and the reader of the first charge === terminal_id
matches_reader(pi, body) ==
    pi.status = "succeeded" /\ pi.reader # "" /\ pi.reader = body.terminal_id

\* the callback throws a TypeError: it reads pi.metadata.staff_name, after the
\* status test, of a record that has no metadata
throws(pi, body) == pi.status = "succeeded" /\ "metadata" \notin DOMAIN pi

\* the terminal_label revision reads pi.metadata.terminal_label when the
\* request has a terminal_label
throws_label(pi, body) ==
    body.terminal_label # "" /\ pi.status = "succeeded"
        /\ "metadata" \notin DOMAIN pi

\* the reader revision reads the reader through ?. and metadata not at all
throws_reader(pi, body) == FALSE

\* err.message of that TypeError
TypeErrorMessage(key) ==
    IF key = "staff_name"
    THEN "Cannot read properties of undefined (reading 'staff_name')"
    ELSE "Cannot read properties of undefined (reading 'terminal_label')"

\* paymentIntents.data.filter(...)
filtered(data, body) == SelectSeq(data, LAMBDA pi : matches(pi, body))

filtered_label(data, body) == SelectSeq(data, LAMBDA pi : matches_label(pi, body))

filtered_reader(data, body) == SelectSeq(data, LAMBDA pi : matches_reader(pi, body))

\* the currency of the first record of the fetched page, with no fallback
currencyOf_noFallback(arr) == IF arr # <<>> THEN arr[1].currency ELSE ""

\* filtered[0]?.currency || "eur"
currencyOf(arr) == IF arr # <<>> THEN OrElse(arr[1].currency, "eur") ELSE "eur"

\* the body of the 200 response
summary(arr) ==
    [ total |-> reduceAmount(arr, 0),
      currency |-> currencyOf(arr),
      count |-> Len(arr),
      transactions |-> arr ]

\* the match and the filter of the revision in file
MatchesOf(file, pi, body) ==
    CASE file = "server.js" -> matches(pi, body)
      [] file = "part_002" -> matches_label(pi, body)
      [] file = "part_000" -> matches_reader(pi, body)

FilterOf(file, data, body) ==
    CASE file = "server.js" -> filtered(data, body)
      [] file = "part_002" -> filtered_label(data, body)
      [] file = "part_000" -> filtered_reader(data, body)

ThrowsOf(file, pi, body) ==
    CASE file = "server.js" -> throws(pi, body)
      [] file = "part_002" -> throws_label(pi, body)
      [] file = "part_000" -> throws_reader(pi, body)

\* the metadata key the filter of the revision reads
KeyOf(file) == IF file = "server.js" THEN "staff_name" ELSE "terminal_label"

\* try { filter, reduce, res.json } catch (err) { res.status(500) }
filterAndSummarize(file, data, body) ==
    IF \E i \in 1..Len(data) : ThrowsOf(file, data[i], body)
    THEN Error(500, TypeErrorMessage(KeyOf(file)))
    ELSE Json(summary(FilterOf(file, data, body)))

\* the handler of the revision in file, for its validation and its message
ReportHandler(file, body, invalid, missing, up) ==
    LET params == listParams(body)
        r == paymentIntents_list(ledger, params, up)
    IN
    /\ req' = [op |-> "report", file |-> file, body |-> body]
    /\ IF invalid
       THEN /\ calls' = <<>>
            /\ resp' = Error(400, missing)
       ELSE /\ calls' = << Call("list", params, r) >>
            /\ resp' = IF r.ok
                       THEN filterAndSummarize(file, r.value.data, body)
                       ELSE Error(500, r.message)
    /\ UNCHANGED <<ledger, supplied>>

transactions_for_terminal(body, up) ==
    ReportHandler("server.js", body, reportInvalid(body),
                  "Missing start, end, or staff_name", up)

transactions_for_terminal_label(body, up) ==
    ReportHandler("part_002", body, reportInvalid_label(body),
                  "Missing start, end, or terminal_id or terminal_label", up)

transactions_for_terminal_reader(body, up) ==
    ReportHandler("part_000", body, reportInvalid_reader(body),
                  "Missing start, end, or terminal_id", up)

(***************************************************************************)
(* The terminal collects the payment of a pending record: the ledger settles *)
(* it, and may note the reader on its charge.                              *)
(***************************************************************************)
Readers == {"", "tmr_1"}

Settle(i, status, reader) ==
    /\ i \in 1..Len(ledger)
    /\ ledger[i].status = "pending"
    /\ ledger' = [ledger EXCEPT ![i].status = status,
                                ![i].reader = IF status = "succeeded"
                                              THEN reader ELSE ""]
    /\ UNCHANGED <<supplied, req, calls, resp>>

(***************************************************************************)
(* Specification                                                           *)
(***************************************************************************)
Init ==
    /\ ledger = <<>>
    /\ supplied = <<>>
    /\ req = [op |-> "none", file |-> "", body |-> <<>>]
    /\ calls = <<>>
    /\ resp = [status |-> 0, body |-> <<>>]

Next ==
    \/ \E body \in CreateBodies, up \in BOOLEAN : create_payment_intent(body, up)
    \/ \E body \in CreateBodies, up \in BOOLEAN :
           create_payment_intent_staffName(body, up)
    \/ \E body \in CreateBodies, up \in BOOLEAN :
           create_payment_intent_plain(body, up)
    \/ \E body \in CaptureBodies, up \in BOOLEAN : capture_payment_intent(body, up)
    \/ \E body \in UpdateBodies, up \in BOOLEAN : update_payment_intent(body, up)
    \/ \E body \in ReportBodies, up \in BOOLEAN : transactions_for_terminal(body, up)
    \/ \E body \in ReportBodies, up \in BOOLEAN :
           transactions_for_terminal_label(body, up)
    \/ \E body \in ReportBodies, up \in BOOLEAN :
           transactions_for_terminal_reader(body, up)
    \/ \E i \in 1..MaxRecords, status \in {"succeeded"},
          reader \in Readers : Settle(i, status, reader)

Spec == Init /\ [][Next]_vars

(***************************************************************************)
(* Reporting alone: one report request arrives at a ledger that earlier    *)
(* creates and settlements have filled, and its handler answers it.        *)
(***************************************************************************)
MaxSeeded == 2

Files == {"server.js", "part_002", "part_000"}

Seed(amount, currency, terminal_label, name, file, status, reader) ==
    [ body |-> [ amount |-> amount, currency |-> currency, description |-> "",
                 receipt_email |-> "", terminal_label |-> terminal_label,
                 staff_name |-> name, staffName |-> name ],
      file |-> file, status |-> status, reader |-> reader ]

SeedKinds ==
    { Seed(200, "usd", "Register-1", "Ann", "server.js", "succeeded", ""),
      Seed(300, "usd", "Register-2", "Ann", "part_002", "succeeded", "tmr_1"),
      Seed(300, "eur", "", "", "server.js", "succeeded", ""),
      Seed(200, "eur", "Register-1", "Ann", "server.js", "canceled", ""),
      Seed(300, "usd", "Register-1", "Ann", "server.js", "pending", ""),
      Seed(300, "eur", "Register-1", "Ann", "part_002", "failed", ""),
      Seed(200, "eur", "Register-1", "Ann", "part_000", "succeeded", "tmr_1"),
      Seed(300, "usd", "", "", "elsewhere", "succeeded", "tmr_1") }

\* the record without the field key
Without(rec, key) == [k \in DOMAIN rec \ {key} |-> rec[k]]

\* the record a create of kind.file and the ledger's settlement leave; a
\* record that came into the ledger elsewhere carries no metadata
SeedRecord(n, kind) ==
    LET params == CASE kind.file = "server.js" -> createParams(kind.body)
                    [] kind.file = "part_002" -> createParams_staffName(kind.body)
                    [] kind.file \in {"part_000", "elsewhere"} ->
                           createParams_plain(kind.body)
        rec == [NewRecord(n, params) EXCEPT !.status = kind.status,
                                            !.reader = kind.reader]
    IN  IF kind.file = "elsewhere" THEN Without(rec, "metadata") ELSE rec

SeedName(kind) ==
    IF kind.file \in {"part_000", "elsewhere"} THEN "" ELSE kind.body.staff_name

\* the ledgers of at most n records, each with the history of its names
RECURSIVE SeedLedgers(_)
SeedLedgers(n) ==
    IF n = 0 THEN { [ledger |-> <<>>, supplied |-> <<>>] }
    ELSE LET prev == SeedLedgers(n - 1) IN
         prev \cup
         { [ ledger |-> Append(s.ledger, SeedRecord(n, kind)),
             supplied |-> Append(s.supplied, SeedName(kind)) ] :
             s \in { x \in prev : Len(x.ledger) = n - 1 }, kind \in SeedKinds }

ReportRequests ==
    { Report(start, end, n, l, t) :
        start \in {"", "1970-01-01T00:00:01.000Z", "1970-01-01T00:00:03.500Z"},
        end \in {"", "1970-01-01T00:00:01.000Z", "1970-01-01T00:00:02.999Z"},
        n \in {"", "Ann", "Bob"}, l \in {"", "Register-1"}, t \in {"", "tmr_1"} }

Incoming(file, body) == [op |-> "incoming", file |-> file, body |-> body]

InitReport ==
    /\ \E s \in SeedLedgers(MaxSeeded) :
           ledger = s.ledger /\ supplied = s.supplied
    /\ \E file \in Files, body \in ReportRequests : req = Incoming(file, body)
    /\ calls = <<>>
    /\ resp = [status |-> 0, body |-> <<>>]

Serve ==
    /\ req.op = "incoming" /\ req.file = "server.js"
    /\ \E up \in BOOLEAN : transactions_for_terminal(req.body, up)

Serve_label ==
    /\ req.op = "incoming" /\ req.file = "part_002"
    /\ \E up \in BOOLEAN : transactions_for_terminal_label(req.body, up)

Serve_reader ==
    /\ req.op = "incoming" /\ req.file = "part_000"
    /\ \E up \in BOOLEAN : transactions_for_terminal_reader(req.body, up)

NextReport == Serve \/ Serve_label \/ Serve_reader

SpecReport == InitReport /\ [][NextReport]_vars

(***************************************************************************)
(* Reporting over a busy window: the ledger holds one record more than a   *)
(* page can carry.                                                         *)
(***************************************************************************)
BacklogKinds ==
    << Seed(200, "usd", "Register-1", "Ann", "server.js", "succeeded", ""),
       Seed(300, "usd", "Register-2", "Bob", "part_002", "succeeded", "tmr_1"),
       Seed(300, "usd", "Register-1", "Ann", "server.js", "pending", "") >>

Backlog ==
    [ n \in 1..(limit + 1) |->
        SeedRecord(n, BacklogKinds[(n % Len(BacklogKinds)) + 1]) ]

BacklogRequests ==
    { Report("1970-01-01T00:00:01.000Z", end, n, l, t) :
        end \in {"1970-01-01T00:00:02.999Z", "1970-01-01T00:10:00.000Z"},
        n \in {"", "Ann", "Bob"}, l \in {"", "Register-1"}, t \in {"", "tmr_1"} }

InitBacklog ==
    /\ ledger = Backlog
    /\ supplied = [ n \in 1..(limit + 1) |->
                      SeedName(BacklogKinds[(n % Len(BacklogKinds)) + 1]) ]
    /\ \E file \in Files, body \in BacklogRequests : req = Incoming(file, body)
    /\ calls = <<>>
    /\ resp = [status |-> 0, body |-> <<>>]

SpecBacklog == InitBacklog /\ [][NextReport]_vars

(***************************************************************************)
(* What the claims speak of                                                *)
(***************************************************************************)
\* the last request was a report, and its answer is a summary
IsReport == req.op = "report"

Summarized == IsReport /\ resp.status = 200

\* the ledger call of the last request failed
LedgerFailed == calls # <<>> /\ ~calls[1].ok

\* the page the report fetched
page == calls[1].value.data

\* the i-th record of the page is among the transactions of the summary
Reported(i) ==
    \E j \in 1..Len(resp.body.transactions) :
        resp.body.transactions[j].id = page[i].id

\* the sum of the amounts of the records of data at the indices S
RECURSIVE SumAmounts(_, _)
SumAmounts(data, S) ==
    IF S = {} THEN 0
    ELSE LET i == CHOOSE x \in S : TRUE
         IN  data[i].amount + SumAmounts(data, S \ {i})

\* start and end are given and start is not after end, in seconds
ValidWindow(body) ==
    /\ body.start # "" /\ body.end # ""
    /\ floorSeconds(getTime(body.start)) <= floorSeconds(getTime(body.end))

\* the summary is the one of exactly the records of the page at the indices S
SummaryOver(S) ==
    /\ \A i \in 1..Len(page) : Reported(i) <=> i \in S
    /\ resp.body.count = Cardinality(S)
    /\ resp.body.total = SumAmounts(page, S)
    /\ resp.body.currency =
           IF S = {} THEN "eur"
           ELSE page[CHOOSE i \in S : \A j \in S : i <= j].currency

(***************************************************************************)
(* C1  A summary never includes a record of the fetched page whose status  *)
(* is not succeeded: it is not among transactions, and count and total are *)
(* those of the succeeded records that are.                                *)
(***************************************************************************)
C1_NonSucceededExcluded ==
    Summarized =>
        LET kept == { i \in 1..Len(page) :
                        page[i].status = "succeeded" /\ Reported(i) }
        IN  /\ \A i \in 1..Len(page) :
                   page[i].status # "succeeded" => ~Reported(i)
            /\ resp.body.count = Cardinality(kept)
            /\ resp.body.total = SumAmounts(page, kept)

\* a summary that kept one record and left out a canceled one of the same operator
C1_Witness ==
    /\ Summarized /\ req.file = "server.js"
    /\ resp.body.count = 1
    /\ \E i \in 1..Len(page) :
           /\ page[i].status = "canceled"
           /\ FieldIs(page[i].metadata, "staff_name", req.body.staff_name)

(***************************************************************************)
(* C2  A report whose start is, in Unix seconds, strictly after its end is *)
(* rejected with a validation error, and no list call is issued for it.   *)
(***************************************************************************)
C2_InvertedWindowRejected ==
    ( /\ IsReport /\ req.file = "server.js"
      /\ req.body.start # "" /\ req.body.end # ""
      /\ floorSeconds(getTime(req.body.start))
             > floorSeconds(getTime(req.body.end)) )
    => (resp.status = 400 /\ calls = <<>>)

(***************************************************************************)
(* C3  When the window holds more records than one page carries, the       *)
(* answer is never a plain summary of that page: further pages were        *)
(* fetched, or the summary carries a truncation marker.                    *)
(***************************************************************************)
C3_FullPageFlagged ==
    ( /\ Summarized /\ req.file = "server.js"
      /\ Len(page) = limit /\ calls[1].value.has_more )
    => (Len(calls) > 1 \/ "truncated" \in DOMAIN resp.body)

(***************************************************************************)
(* C4  A record created with an operator name N, once succeeded and in the *)
(* page a report fetched, is in the summary of a report for operator M     *)
(* exactly when M = N: create writes the name, as given, under the         *)
(* metadata key the report's filter reads.                                 *)
(***************************************************************************)
C4_OperatorRoundTrip ==
    (Summarized /\ req.file = "server.js") =>
        \A i \in 1..Len(page) :
            LET N == supplied[page[i].created] IN
            (N # "" /\ page[i].status = "succeeded")
                => (Reported(i) <=> req.body.staff_name = N)

\* a record created by the staffName revision for Bob is reported for Bob
C4_Witness ==
    /\ Summarized /\ req.file = "server.js"
    /\ req.body.staff_name = "Bob"
    /\ Len(page) = 1 /\ supplied[page[1].created] = "Bob"
    /\ resp.body.count = 1

(***************************************************************************)
(* C5  A report over a valid window whose only selector is terminalLabel L *)
(* is answered with the summary of exactly the succeeded records of the    *)
(* fetched page whose terminal_label is L.                                 *)
(***************************************************************************)
C5_TerminalLabelSummary ==
    ( /\ IsReport /\ req.file = "server.js"
      /\ ValidWindow(req.body)
      /\ req.body.terminal_label # ""
      /\ req.body.staff_name = "" /\ req.body.terminal_id = ""
      /\ ~LedgerFailed )
    => /\ Summarized
       /\ SummaryOver({ i \in 1..Len(page) :
                          /\ page[i].status = "succeeded"
                          /\ FieldIs(page[i].metadata, "terminal_label",
                                     req.body.terminal_label) })

(***************************************************************************)
(* C6  A report with a valid start and end and no identity selector        *)
(* succeeds, with the summary of every succeeded record of the fetched     *)
(* page.                                                                   *)
(***************************************************************************)
C6_NoSelectorSummary ==
    ( /\ IsReport /\ req.file = "server.js"
      /\ ValidWindow(req.body)
      /\ req.body.terminal_label = ""
      /\ req.body.staff_name = "" /\ req.body.terminal_id = ""
      /\ ~LedgerFailed )
    => /\ Summarized
       /\ SummaryOver({ i \in 1..Len(page) : page[i].status = "succeeded" })

(***************************************************************************)
(* C7  In every summary, a count of 0 comes with a total of 0 and the      *)
(* fallback currency "eur".                                                *)
(***************************************************************************)
C7_EmptySummary ==
    (Summarized /\ resp.body.count = 0)
        => (resp.body.total = 0 /\ resp.body.currency = "eur")

\* an empty summary over a page whose first record is in usd
C7_Witness ==
    /\ Summarized /\ req.file = "server.js" /\ resp.body.count = 0
    /\ Len(page) > 0 /\ page[1].currency = "usd"

(***************************************************************************)
(* C8  In every summary, total is the sum of the amounts of the matching   *)
(* records of the page and count is their number, and both come out the    *)
(* same for every permutation of the page.                                 *)
(***************************************************************************)
C8_SumAndCount ==
    Summarized =>
        LET n == Len(page)
            matching == { i \in 1..n : MatchesOf(req.file, page[i], req.body) }
        IN  /\ resp.body.total = SumAmounts(page, matching)
            /\ resp.body.count = Cardinality(matching)
            /\ \A p \in Permutations(1..n) :
                   LET shuffled == [i \in 1..n |-> page[p[i]]]
                       s == summary(FilterOf(req.file, shuffled, req.body))
                   IN  s.total = resp.body.total /\ s.count = resp.body.count

\* a summary of two matching records of different amounts
C8_Witness ==
    /\ Summarized /\ req.file = "server.js"
    /\ resp.body.count = 2 /\ resp.body.total = 500
    /\ Len(page) = 2 /\ page[1].amount # page[2].amount

(***************************************************************************)
(* C9  An update request without payment_intent_id or without              *)
(* receipt_email is answered 400, issues no ledger call and leaves the     *)
(* ledger as it was.                                                       *)
(***************************************************************************)
C9_UpdateValidated ==
    [][ \A body \in UpdateBodies, up \in BOOLEAN :
            ( /\ update_payment_intent(body, up)
              /\ (body.payment_intent_id = NoId \/ body.receipt_email = "") )
            => (resp'.status = 400 /\ calls' = <<>> /\ ledger' = ledger) ]_vars

\* an update of an existing record, without receipt_email, was refused
C9_Witness ==
    /\ req.op = "update" /\ resp.status = 400 /\ calls = <<>>
    /\ req.body.receipt_email = ""
    /\ IndexOf(ledger, req.body.payment_intent_id) # 0

(***************************************************************************)
(* C10  No step changes the attribution metadata a record was created      *)
(* with; a capture changes at most the status and the amount of a record,  *)
(* an update at most its receipt_email.                                    *)
(***************************************************************************)
\* every record keeps every field but those named
Kept(fields) ==
    /\ Len(ledger') = Len(ledger)
    /\ \A i \in 1..Len(ledger) :
           \A k \in DOMAIN ledger[i] \ fields : ledger'[i][k] = ledger[i][k]

C10_AttributionFrame ==
    [][ /\ Len(ledger') >= Len(ledger)
        /\ \A i \in 1..Len(ledger) : ledger'[i].metadata = ledger[i].metadata
        /\ (\E body \in CaptureBodies, up \in BOOLEAN :
                capture_payment_intent(body, up))
               => Kept({"status", "amount"})
        /\ (\E body \in UpdateBodies, up \in BOOLEAN :
                update_payment_intent(body, up))
               => Kept({"receipt_email"}) ]_vars

\* a record with attribution, captured for less and then given a receipt email
C10_Witness ==
    /\ req.op = "update" /\ resp.status = 200
    /\ Len(ledger) >= 1
    /\ ledger[1].status = "succeeded" /\ ledger[1].amount = 100
    /\ ledger[1].receipt_email = "bob@example.com"
    /\ FieldIs(ledger[1].metadata, "staff_name", "Ann")
    /\ FieldIs(ledger[1].metadata, "terminal_label", "Register-1")

(***************************************************************************)
(* C11  A capture that reaches the ledger for a record create left pending *)
(* leaves that record succeeded: with its amount unchanged when            *)
(* amount_to_capture is left out, and with amount A when amount_to_capture *)
(* is A, for every A below the authorized amount.                          *)
(***************************************************************************)
C11_CaptureAfterCreate ==
    [][ \A body \in CaptureBodies :
            LET i == IndexOf(ledger, body.payment_intent_id) IN
            ( /\ capture_payment_intent(body, TRUE)
              /\ i # 0 /\ ledger[i].status = "pending" )
            => /\ ledger'[i].status = "succeeded"
               /\ "amount_to_capture" \notin DOMAIN body
                      => ledger'[i].amount = ledger[i].amount
               /\ ( /\ "amount_to_capture" \in DOMAIN body
                    /\ body.amount_to_capture < ledger[i].amount )
                      => ledger'[i].amount = body.amount_to_capture ]_vars

(***************************************************************************)
(* C12  Whenever the list call of a report succeeds, the report is         *)
(* answered with a summary, whatever the page holds: a record that lacks   *)
(* what the filter of the revision reads (its metadata, or the reader of   *)
(* its charge) is left out, and the summary is that of the other records   *)
(* that match.                                                             *)
(***************************************************************************)
\* the record lacks what the filter of the revision in file compares
Absent(file, pi, body) ==
    CASE file = "server.js" -> "metadata" \notin DOMAIN pi
      [] file = "part_002" ->
             body.terminal_label # "" /\ "metadata" \notin DOMAIN pi
      [] file = "part_000" -> pi.reader = ""

C13_SingleAttempt ==
    /\ Len(calls) <= 1
    /\ LedgerFailed =>
           /\ resp.status = 500
           /\ resp.body = [error |-> calls[1].message]

\* a capture of a record that was settled already: the ledger refused it
C13_Witness ==
    /\ req.op = "capture" /\ LedgerFailed
    /\ IndexOf(ledger, req.body.payment_intent_id) # 0
    /\ calls[1].message = "This PaymentIntent could not be captured"
    /\ resp.body.error = "This PaymentIntent could not be captured"

====
